---- MODULE Spec2Model ----
(***************************************************************************)
(* The culture_ship resource of terraform-provider-fun-names               *)
(* (internal/provider/resource_culture_ship.go) and the two entry points   *)
(* of internal/spaceships it calls: NonDeterministicMode and Generate.     *)
(*                                                                         *)
(* Strings are sequences of one-character strings, so that lower-casing,   *)
(* concatenation and prefixes are computed, not assumed.                   *)
(*                                                                         *)
(* Two specifications share the definitions below:                         *)
(*   Spec      one resource, each handler (Create, Read, Update, Delete)   *)
(*             one atomic action, with the full range of plans;            *)
(*   ConcSpec  several threads inside Create at once, Create split at its  *)
(*             accesses to the process-wide random source.                 *)
(***************************************************************************)
EXTENDS Integers, Sequences, FiniteSets, TLC

VARIABLES
    corpus,     \* spaceships: the word list, fixed for the process lifetime
    rngMode,    \* process-wide random source: "deterministic" | "nondeterministic"
    rngState,   \* process-wide random source: its sequence position
    \* ---- Spec: one resource, handlers atomic
    state,      \* resp.State as the last handler left it (NullState: never set)
    plan,       \* the plan most recently read without error
    op,         \* the handler that ran last
    diag,       \* how it ended: "ok" | "PlanError" | "EmptyCorpus"
    calls,      \* the spaceships calls it made, in order
    lastRun,    \* history: the last Create run that stored an id
    rerun,      \* history: that run read the same source position, with the same
                \* separator and prefix, as the stored run before it
    \* ---- ConcSpec: threads inside Create
    pc,         \* per thread: position inside Create
    tplan,      \* per thread: the plan read at line 84
    tread,      \* per thread: random-source state read by Generate
    tstate,     \* per thread: resp.State
    tdiag,      \* per thread: how the call ended
    ndm,        \* per thread: NonDeterministicMode was called in this Create
    rngHolders, \* threads inside the random source's critical section
    raced       \* history: an access found another thread inside the section

vars == <<corpus, rngMode, rngState, state, plan, op, diag, calls, lastRun, rerun,
          pc, tplan, tread, tstate, tdiag, ndm, rngHolders, raced>>

seqVars  == <<state, plan, op, diag, calls, lastRun, rerun>>
concVars == <<pc, tplan, tread, tstate, tdiag, ndm, rngHolders, raced>>

-----------------------------------------------------------------------------
(* Bounds *)

\* number of distinct positions of the random source
RngMod == 4

\* number of threads that may be inside Create at once (ConcSpec)
NumThreads == 2

Threads == 1..NumThreads

-----------------------------------------------------------------------------
(* Strings *)

Lower(c) ==
    CASE c = "A" -> "a"
      [] c = "B" -> "b"
      [] c = "H" -> "h"
      [] OTHER   -> c

ToLowerId(s) == s

\* strings.ToLower
ToLower(s) == [i \in 1..Len(s) |-> Lower(s[i])]

IsLowerCase(s) == \A i \in 1..Len(s) : s[i] = Lower(s[i])

-----------------------------------------------------------------------------
(* types.String, types.Map and the resource model *)

StringNull     == [kind |-> "null",    value |-> <<>>]
StringUnknown  == [kind |-> "unknown", value |-> <<>>]
StringValue(s) == [kind |-> "value",   value |-> s]

\* types.String.ValueString: "" for null and unknown
ValueString(x) == IF x.kind = "value" THEN x.value ELSE <<>>

MapNull     == [kind |-> "null",  elements |-> {}]
MapValue(m) == [kind |-> "value", elements |-> m]

\* cultureShipModelV0
cultureShipModelV0(id, keepers, prefix, separator) ==
    [ID |-> id, Keepers |-> keepers, Prefix |-> prefix, Separator |-> separator]

\* the state of a response no handler has written
NullState == cultureShipModelV0(StringNull, MapNull, StringNull, StringNull)

-----------------------------------------------------------------------------
(* Inputs *)

\* The word lists the package may be built with.  An entry keeps the casing
\* the package holds it in: a package that lower-cases what it returns is the
\* same, seen from Create, as one whose list is already lower-case.
Corpora ==
    { <<>>,
      << <<"b", "a">> >>,
      << <<"A">>, <<"B", "a">> >> }

\* "prefix": Optional, so null, "" or a value
Prefixes == { StringNull, StringValue(<<>>), StringValue(<<"H">>) }

\* "separator": Optional, Computed, Default "-": never null in a plan
Separators == { StringValue(<<"-">>), StringValue(<<>>) }

\* "keepers": Optional map of strings
KeeperMaps == { MapNull, MapValue({<<"k", "v">>}) }

\* The plans Create can be given: "id" is Computed, unknown until Create sets it.
CreatePlans ==
    { cultureShipModelV0(StringUnknown, k, p, s) :
        k \in KeeperMaps, p \in Prefixes, s \in Separators }

\* The plans Update can be given for a resource whose state is st: a change of
\* "prefix" or "separator" plans a replacement (RequiresReplace), never an
\* Update, and "id" is planned as the state has it (UseStateForUnknown).
UpdatePlans(st) ==
    { cultureShipModelV0(st.ID, k, st.Prefix, st.Separator) : k \in KeeperMaps }

\* entropy the initializer seeds from
Seeds == 0..(RngMod - 1)

-----------------------------------------------------------------------------
(* internal/spaceships *)

NonDeterministicModeFixedSeed(seed) ==
    [mode |-> "deterministic", state |-> 0]

\* spaceships.NonDeterministicMode: seeds the process-wide source from
\* entropy; every call seeds again.
NonDeterministicMode(seed) ==
    [mode |-> "nondeterministic", state |-> seed]

\* rand.Intn on source state s
Intn(s, n) == s % n

\* the source's next sequence position
Advance(s) == (s + 1) % RngMod

\* spaceships.Generate: one entry of the list, selected by the source, which
\* advances; fails (EmptyCorpus) on an empty list, the source untouched.
Generate(separator, s, c) ==
    IF Len(c) = 0
    THEN [ok |-> FALSE, name |-> <<>>, rng |-> s]
    ELSE [ok |-> TRUE, name |-> c[Intn(s, Len(c)) + 1], rng |-> Advance(s)]

-----------------------------------------------------------------------------
(* cultureShipResource.Create, as a function of its request *)

HasErrorNever(d) == FALSE

\* resp.Diagnostics.HasError
HasError(d) == d # "ok"

\* diagnostics of req.Plan.Get
PlanGet(getErr) == IF getErr THEN "PlanError" ELSE "ok"

GenerateFailedIgnored(g) == FALSE

\* Generate returns one string and Create does not recover: a failure of
\* Generate unwinds Create at line 93.
GenerateFailed(g) == ~g.ok

ShipWithPrefixLowered(prefix, separator, ship) ==
    IF prefix # <<>> THEN ToLower(prefix \o separator \o ship) ELSE ship

\* lines 100-101: the id
ShipWithPrefix(prefix, separator, ship) ==
    IF prefix # <<>> THEN prefix \o separator \o ship ELSE ship

PrefixFieldAlways(prefix) == StringValue(prefix)

\* lines 100-105: pn.Prefix
PrefixField(prefix) ==
    IF prefix # <<>> THEN StringValue(prefix) ELSE StringNull

\* Lines 82-113, entered with the source at position s (NonDeterministicMode
\* has run): the state written, the diagnostics, the spaceships calls made
\* and the source's position at return.  resp.State.Set is given a model of
\* the schema's own types and reports no error.
CreateBody(p, getErr, s, c) ==
    LET d == PlanGet(getErr) IN
    IF HasError(d)
    THEN [state |-> NullState, diag |-> d, calls |-> <<>>, rng |-> s,
          name |-> <<>>, stored |-> FALSE]
    ELSE
      LET separator == ValueString(p.Separator)
          prefix    == ValueString(p.Prefix)
          g         == Generate(separator, s, c)
      IN
      IF GenerateFailed(g)
      THEN [state |-> NullState, diag |-> "EmptyCorpus",
            calls |-> <<"Generate">>, rng |-> g.rng,
            name |-> <<>>, stored |-> FALSE]
      ELSE
        LET ship == ToLower(g.name)
            pn   == cultureShipModelV0(
                        StringValue(ShipWithPrefix(prefix, separator, ship)),
                        p.Keepers,
                        PrefixField(prefix),
                        StringValue(separator))
        IN [state |-> pn, diag |-> d, calls |-> <<"Generate">>,
            rng |-> g.rng, name |-> g.name, stored |-> TRUE]

CreateResponseKeepers(p, getErr, seed, c) ==
    LET r == CreateBody(p, getErr, NonDeterministicMode(seed).state, c) IN
    [r EXCEPT !.calls = <<"NonDeterministicMode">> \o r.calls,
              !.state.ID = IF r.stored /\ p.Keepers # MapNull
                           THEN StringValue(<<"k">> \o r.state.ID.value)
                           ELSE r.state.ID]

\* The whole of Create (lines 76-114): line 80, then the body.
CreateResponse(p, getErr, seed, c) ==
    LET r == CreateBody(p, getErr, NonDeterministicMode(seed).state, c) IN
    [r EXCEPT !.calls = <<"NonDeterministicMode">> \o r.calls]

-----------------------------------------------------------------------------
(* Spec: one resource, one handler at a time *)

\* the resource is in the host's state: a handler stored it and the host has
\* not removed it after Delete
Exists == state # NullState /\ op # "Delete"

\* history record of a Create run that stored an id: the source's position
\* when Create was entered and when Generate read it, what Generate returned,
\* the plan's separator and prefix, the id stored
Run(start, used, name, p, st) ==
    [stored |-> TRUE, start |-> start, used |-> used, name |-> name,
     separator |-> ValueString(p.Separator), prefix |-> ValueString(p.Prefix),
     id |-> st.ID.value]

NoRun ==
    [stored |-> FALSE, start |-> 0, used |-> 0, name |-> <<>>,
     separator |-> <<>>, prefix |-> <<>>, id |-> <<>>]

\* two stored runs whose Generate read the same source position, under the
\* same separator and prefix
SameInputs(a, b) ==
    /\ a.stored /\ b.stored
    /\ a.used = b.used
    /\ a.separator = b.separator
    /\ a.prefix = b.prefix

\* cultureShipResource.Create
Create(p, getErr, seed) ==
    /\ ~Exists
    /\ LET r == CreateResponse(p, getErr, seed, corpus) IN
       /\ rngMode'  = NonDeterministicMode(seed).mode
       /\ rngState' = r.rng
       /\ state'    = r.state
       /\ plan'     = IF getErr THEN plan ELSE p
       /\ diag'     = r.diag
       /\ calls'    = r.calls
       /\ lastRun'  = IF r.stored
                      THEN Run(rngState, seed, r.name, p, r.state)
                      ELSE lastRun
       /\ rerun'    = IF r.stored
                      THEN SameInputs(lastRun, Run(rngState, seed, r.name, p, r.state))
                      ELSE rerun
    /\ op' = "Create"
    /\ UNCHANGED <<corpus, concVars>>

ReadResponseCleared(st) == NullState

\* cultureShipResource.Read: resp.State arrives populated and is left alone
ReadResponse(st) == st

Read ==
    /\ Exists
    /\ state' = ReadResponse(state)
    /\ op'    = "Read"
    /\ diag'  = "ok"
    /\ calls' = <<>>
    /\ UNCHANGED <<corpus, rngMode, rngState, plan, lastRun, rerun, concVars>>

\* cultureShipResource.Update: the plan is copied to the state
UpdateResponse(st, m, getErr) ==
    LET d == PlanGet(getErr) IN
    IF HasError(d)
    THEN [state |-> st, diag |-> d]
    ELSE [state |-> m, diag |-> d]

Update(m, getErr) ==
    /\ Exists
    /\ LET r == UpdateResponse(state, m, getErr) IN
       /\ state' = r.state
       /\ diag'  = r.diag
    /\ plan'  = IF getErr THEN plan ELSE m
    /\ op'    = "Update"
    /\ calls' = <<>>
    /\ UNCHANGED <<corpus, rngMode, rngState, lastRun, rerun, concVars>>

\* cultureShipResource.Delete: nothing; the host removes the resource after
\* the handler returns
Delete ==
    /\ Exists
    /\ op'    = "Delete"
    /\ diag'  = "ok"
    /\ calls' = <<>>
    /\ UNCHANGED <<corpus, rngMode, rngState, state, plan, lastRun, rerun, concVars>>

Init ==
    /\ corpus \in Corpora
    /\ rngMode = "deterministic"
    /\ rngState = 0
    /\ state = NullState
    /\ plan = NullState
    /\ op = "none"
    /\ diag = "ok"
    /\ calls = <<>>
    /\ lastRun = NoRun
    /\ rerun = FALSE
    /\ pc = [t \in Threads |-> "idle"]
    /\ tplan = [t \in Threads |-> NullState]
    /\ tread = [t \in Threads |-> 0]
    /\ tstate = [t \in Threads |-> NullState]
    /\ tdiag = [t \in Threads |-> "ok"]
    /\ ndm = [t \in Threads |-> FALSE]
    /\ rngHolders = {}
    /\ raced = FALSE

Next ==
    \/ \E p \in CreatePlans, getErr \in BOOLEAN, seed \in Seeds :
          Create(p, getErr, seed)
    \/ Read
    \/ \E m \in UpdatePlans(state), getErr \in BOOLEAN : Update(m, getErr)
    \/ Delete

Spec == Init /\ [][Next]_vars

-----------------------------------------------------------------------------
(* ConcSpec: several threads inside Create.  The host serves each request  *)
(* on its own thread; the resource has no fields, so the threads share the *)
(* random source alone.  Create is split where it reaches that source:     *)
(* line 80 (one seeding write), and line 93, whose advance-and-read is a   *)
(* read of the position followed by a write of the next one.               *)
(***************************************************************************)

\* the plans the threads are given
ConcPlans ==
    { cultureShipModelV0(StringUnknown, MapNull, p, s) :
        p \in { StringNull, StringValue(<<"H">>) }, s \in Separators }

RngFreeUnguarded(t) == TRUE

\* the source's lock is free for t: no other thread is inside the section
RngFree(t) == rngHolders \ {t} = {}

CreateEnterNoSeed(t, seed) ==
    /\ pc[t] = "idle"
    /\ pc' = [pc EXCEPT ![t] = "plan"]
    /\ UNCHANGED <<corpus, rngMode, rngState, tplan, tread, tstate, tdiag,
                   ndm, rngHolders, raced, seqVars>>

\* line 80: Create is entered and calls NonDeterministicMode
CreateEnter(t, seed) ==
    /\ pc[t] = "idle"
    /\ RngFree(t)
    /\ rngMode'  = NonDeterministicMode(seed).mode
    /\ rngState' = NonDeterministicMode(seed).state
    /\ raced'    = (raced \/ rngHolders \ {t} # {})
    /\ ndm'      = [ndm EXCEPT ![t] = TRUE]
    /\ pc'       = [pc EXCEPT ![t] = "plan"]
    /\ UNCHANGED <<corpus, tplan, tread, tstate, tdiag, rngHolders, seqVars>>

\* lines 82-91: the plan is read
CreatePlanGet(t, p, getErr) ==
    /\ pc[t] = "plan"
    /\ LET d == PlanGet(getErr) IN
       IF HasError(d)
       THEN /\ tdiag' = [tdiag EXCEPT ![t] = d]
            /\ pc'    = [pc EXCEPT ![t] = "done"]
            /\ UNCHANGED tplan
       ELSE /\ tplan' = [tplan EXCEPT ![t] = p]
            /\ pc'    = [pc EXCEPT ![t] = "generate"]
            /\ UNCHANGED tdiag
    /\ UNCHANGED <<corpus, rngMode, rngState, tread, tstate, ndm, rngHolders,
                   raced, seqVars>>

\* line 93, Generate, first half: on an empty list it fails at once; else it
\* takes the source's lock and reads the position
GenerateBegin(t) ==
    /\ pc[t] = "generate"
    /\ IF GenerateFailed(Generate(ValueString(tplan[t].Separator), rngState, corpus))
       THEN /\ tdiag' = [tdiag EXCEPT ![t] = "EmptyCorpus"]
            /\ pc'    = [pc EXCEPT ![t] = "done"]
            /\ UNCHANGED <<tread, rngHolders, raced>>
       ELSE /\ RngFree(t)
            /\ raced'      = (raced \/ rngHolders \ {t} # {})
            /\ rngHolders' = rngHolders \cup {t}
            /\ tread'      = [tread EXCEPT ![t] = rngState]
            /\ pc'         = [pc EXCEPT ![t] = "selected"]
            /\ UNCHANGED tdiag
    /\ UNCHANGED <<corpus, rngMode, rngState, tplan, tstate, ndm, seqVars>>

\* line 93, Generate, second half: the next position is written and the lock
\* released; then lines 93-113 build the model and set the state
GenerateEnd(t) ==
    /\ pc[t] = "selected"
    /\ LET r == CreateBody(tplan[t], FALSE, tread[t], corpus) IN
       /\ rngState' = r.rng
       /\ tstate'   = [tstate EXCEPT ![t] = r.state]
       /\ tdiag'    = [tdiag EXCEPT ![t] = r.diag]
    /\ rngHolders' = rngHolders \ {t}
    /\ pc'         = [pc EXCEPT ![t] = "done"]
    /\ UNCHANGED <<corpus, rngMode, tplan, tread, ndm, raced, seqVars>>

\* Create returns; the thread is free for the next request
CreateReturn(t) ==
    /\ pc[t] = "done"
    /\ pc'     = [pc EXCEPT ![t] = "idle"]
    /\ tplan'  = [tplan EXCEPT ![t] = NullState]
    /\ tread'  = [tread EXCEPT ![t] = 0]
    /\ tstate' = [tstate EXCEPT ![t] = NullState]
    /\ tdiag'  = [tdiag EXCEPT ![t] = "ok"]
    /\ ndm'    = [ndm EXCEPT ![t] = FALSE]
    /\ UNCHANGED <<corpus, rngMode, rngState, rngHolders, raced, seqVars>>

ConcNext ==
    \E t \in Threads :
        \/ \E seed \in Seeds : CreateEnter(t, seed)
        \/ \E p \in ConcPlans, getErr \in BOOLEAN : CreatePlanGet(t, p, getErr)
        \/ GenerateBegin(t)
        \/ GenerateEnd(t)
        \/ CreateReturn(t)

ConcSpec == Init /\ [][ConcNext]_vars

-----------------------------------------------------------------------------
(* Properties *)

\* a stored state, and the plan's prefix and separator as Create reads them
Stored       == state # NullState
PlanPrefix   == ValueString(plan.Prefix)
PlanSep      == ValueString(plan.Separator)
LoweredName  == [i \in 1..Len(lastRun.name) |-> Lower(lastRun.name[i])]

\* C1: the id Create stores is the lower-cased name the generator returned
\* when the plan's prefix is empty or null, and prefix + separator +
\* lower-cased name otherwise, the prefix verbatim.
C1_IdComposition ==
    (op = "Create" /\ Stored) =>
        /\ \E i \in 1..Len(corpus) : corpus[i] = lastRun.name
        /\ state.ID.kind = "value"
        /\ state.ID.value = IF PlanPrefix = <<>>
                            THEN LoweredName
                            ELSE PlanPrefix \o PlanSep \o LoweredName

\* C1 witness: Create stored an id under the upper-case prefix "H", the
\* separator "-" and a name that is not lower-case.
C1_Witness ==
    /\ op = "Create" /\ Stored
    /\ PlanPrefix = <<"H">> /\ PlanSep = <<"-">>
    /\ lastRun.name = <<"B", "a">>
    /\ state.ID.value = <<"H", "-", "b", "a">>

\* C2 as stated: every stored id is entirely lower-case, whatever the prefix
\* and separator.
C2_IdEntirelyLowerCase ==
    Stored => IsLowerCase(state.ID.value)

\* the part of the stored id after prefix + separator (all of it without prefix)
NamePart ==
    LET pre == ValueString(state.Prefix)
        k   == IF pre = <<>> THEN 0 ELSE Len(pre) + Len(ValueString(state.Separator))
    IN SubSeq(state.ID.value, k + 1, Len(state.ID.value))

\* C2 amended: the generated name inside every stored id (the whole id without
\* a prefix, the part after prefix + separator with one) is entirely
\* lower-case whatever the casing of the list; the id as a whole is
\* lower-case when prefix and separator are.
C2_NamePartLowerCase ==
    Stored =>
        /\ IsLowerCase(NamePart)
        /\ Len(NamePart) = Len(lastRun.name)
        /\ (IsLowerCase(ValueString(state.Prefix))
              /\ IsLowerCase(ValueString(state.Separator))
              => IsLowerCase(state.ID.value))

\* C2 witness: a name that is not lower-case in the list was stored, under a prefix.
C2_Witness ==
    /\ Stored
    /\ ~IsLowerCase(lastRun.name)
    /\ ValueString(state.Prefix) = <<"H">>
    /\ NamePart = <<"b", "a">>

C4_SeededBeforeGenerate ==
    \A t \in Threads :
        (pc[t] = "selected" \/ (pc[t] = "done" /\ tdiag[t] # "PlanError"))
            => (ndm[t] /\ rngMode = "nondeterministic")

\* C4 witness: a thread is inside Generate, the source seeded.
C4_Witness ==
    \E t \in Threads : pc[t] = "selected" /\ ndm[t] /\ rngMode = "nondeterministic"

C6_InitializerIdempotent ==
    [][ /\ (op' = "Create" => rngMode' = "nondeterministic")
        /\ (rngMode = "nondeterministic" => rngMode' = "nondeterministic") ]_vars

\* C6 witness: a Create ran in a process whose earlier Create had already
\* seeded the source and advanced it.
C6_Witness ==
    /\ op = "Create"
    /\ lastRun.stored /\ lastRun.start # 0
    /\ rngMode = "nondeterministic"

\* the step is a Create that stored an id, after an earlier stored run
SecondRun == op' = "Create" /\ diag' = "ok" /\ lastRun.stored /\ lastRun'.stored

C8_OnlyCreateGenerates ==
    [][ op' \in {"Read", "Update", "Delete"} =>
          /\ calls' = <<>>
          /\ rngState' = rngState /\ rngMode' = rngMode
          /\ (op' \in {"Read", "Delete"} => state' = state)
          /\ (op' = "Update" /\ diag' = "ok" => state' = plan')
          /\ state'.ID = state.ID
          /\ state'.ID.value = lastRun.id ]_vars

\* C8 witness: an Update changed the keepers of a created resource; the id is
\* the one Create generated.
C8_Witness ==
    /\ op = "Update" /\ diag = "ok"
    /\ state.Keepers # MapNull
    /\ state.ID.value = lastRun.id
    /\ Len(lastRun.id) > 0

\* C9: a Create whose plan cannot be read calls no Generate, leaves the
\* source where the initializer put it and writes no state; an Update whose
\* plan cannot be read leaves the state as it was; a state that is written
\* carries an id that is a value, never null or unknown.
C9_NoPartialResult ==
    [][ /\ (op' = "Create" /\ diag' = "PlanError" =>
              /\ state' = NullState
              /\ calls' = <<"NonDeterministicMode">>
              /\ lastRun' = lastRun)
        /\ (op' = "Update" /\ diag' = "PlanError" => state' = state)
        /\ (state' # NullState =>
              /\ state'.ID.kind = "value" /\ Len(state'.ID.value) > 0
              /\ state'.Separator.kind = "value"
              /\ (diag' = "PlanError" => op' = "Update")) ]_vars

\* C9 witness: a Create failed on its plan after an earlier resource had been
\* created and deleted; nothing is stored.
C9_Witness ==
    /\ op = "Create" /\ diag = "PlanError"
    /\ state = NullState
    /\ lastRun.stored

\* C10: the stored separator and keepers are the plan's, the stored prefix is
\* null exactly when the plan's prefix is empty or null, and a stored prefix
\* with the stored separator begins the id.
C10_FieldsAgreeWithId ==
    Stored =>
        /\ state.Separator = plan.Separator
        /\ state.Keepers = plan.Keepers
        /\ (state.Prefix = StringNull <=> PlanPrefix = <<>>)
        /\ (state.Prefix # StringNull =>
              LET head == state.Prefix.value \o state.Separator.value IN
              /\ state.Prefix.kind = "value"
              /\ Len(state.ID.value) >= Len(head)
              /\ SubSeq(state.ID.value, 1, Len(head)) = head)

\* C10 witness: after an Update, a stored prefix and separator begin the id.
C10_Witness ==
    /\ op = "Update" /\ diag = "ok" /\ Stored
    /\ state.Prefix = StringValue(<<"H">>)
    /\ state.Separator = StringValue(<<"-">>)
    /\ SubSeq(state.ID.value, 1, 2) = <<"H", "-">>

====
